---- MODULE Spec2Model ----
(***************************************************************************)
(* Model of langchain_community/llms/deepinfra.py: the DeepInfra LLM       *)
(* adapter.  One call of the adapter is a state machine: the request body  *)
(* is built and posted, the response arrives, the streaming modes check    *)
(* the body text for an embedded error, the status is classified, and the  *)
(* body lines run through _parse_stream / _handle_sse_line, each chunk     *)
(* being announced to the run manager and then yielded to the consumer.    *)
(*                                                                         *)
(* Text is modelled as a sequence of lexemes (strings): a raw line         *)
(* `data: {"token":{"text":"a"}}` is                                       *)
(*   <<"data:", " ", "{", "\"token\"", ":", "{", "\"text\"", ":",          *)
(*     "\"a\"", "}", "}">>.                                                *)
(* startswith, strip, the substring test and json.loads are computed on    *)
(* these sequences.                                                        *)
(***************************************************************************)
EXTENDS Integers, Sequences, FiniteSets, TLC

VARIABLES
    pc,            \* position of the call
    mode,          \* "call" | "acall" | "stream" | "astream"
    prompt,        \* the prompt argument
    model_kwargs,  \* self.model_kwargs: None or a dict
    kwargs,        \* the call's **kwargs
    run_manager,   \* TRUE when a run manager (token observer) was passed
    sent,          \* the body posted to the server, NoBody before
    status,        \* response status code
    body,          \* response body: the sequence of raw lines on the wire
    rpos,          \* number of raw lines read off the transport so far
    response_text, \* the local response_text of _stream / _astream
    lines,         \* raw lines the line iterator still has to produce
    fed,           \* raw lines the line iterator has produced so far
    decoded,       \* what _parse_stream_helper returned for each of them
    line,          \* the decoded line held by the for loop
    chunk,         \* the chunk held by the for loop
    observed,      \* texts passed to on_llm_new_token calls that returned
    delivered,     \* chunks yielded to the consumer
    err,           \* outcome of the call: NoError or the exception raised
    result,        \* the text a blocking call returned, None before
    conn           \* "none" | "open" | "released": the transport connection

vars == <<pc, mode, prompt, model_kwargs, kwargs, run_manager, sent, status,
          body, rpos, response_text, lines, fed, decoded, line, chunk,
          observed, delivered, err, result, conn>>

-----------------------------------------------------------------------------
(* Python values *)

None == [none |-> TRUE]
Str(s) == [s |-> s]
Bool(b) == [b |-> b]
Dict(m) == [o |-> m]
IsStr(v) == DOMAIN v = {"s"}
IsDict(v) == DOMAIN v = {"o"}

EmptyDict == <<>>

\* {**a, **b}: the keys of both, b's value where both have the key
DictMerge(a, b) == b @@ a

-----------------------------------------------------------------------------
(* _handle_status *)

model_id == "meta-llama/Meta-Llama-3-70B-Instruct"

NoError == [kind |-> "Success", exc |-> "none", msg |-> <<>>]
Raise(kind, exc, msg) == [kind |-> kind, exc |-> exc, msg |-> msg]

\* variant: 429 tested after the general 4xx branch
HandleStatusRateLimitLate(code, text) ==
    IF code >= 500 THEN
        Raise("ServerError", "Exception", <<"DeepInfra Server: Error ">> \o text)
    ELSE IF code = 401 THEN
        Raise("Unauthorized", "Exception", <<"DeepInfra Server: Unauthorized">>)
    ELSE IF code = 403 THEN
        Raise("Forbidden", "Exception", <<"DeepInfra Server: Unauthorized">>)
    ELSE IF code = 404 THEN
        Raise("NotFound", "Exception",
              <<"DeepInfra Server: Model not found ", model_id>>)
    ELSE IF code >= 400 THEN
        Raise("InvalidPayload", "ValueError",
              <<"DeepInfra received an invalid payload: ">> \o text)
    ELSE IF code = 429 THEN
        Raise("RateLimited", "Exception",
              <<"DeepInfra Server: Rate limit exceeded">>)
    ELSE IF code # 200 THEN
        Raise("UnexpectedStatus", "Exception",
              <<"DeepInfra returned an unexpected response with status ",
                ToString(code), ": ">> \o text)
    ELSE NoError

\* variant: server errors start above 500
HandleStatusServerStrict(code, text) ==
    IF code > 500 THEN
        Raise("ServerError", "Exception", <<"DeepInfra Server: Error ">> \o text)
    ELSE IF code = 401 THEN
        Raise("Unauthorized", "Exception", <<"DeepInfra Server: Unauthorized">>)
    ELSE IF code = 403 THEN
        Raise("Forbidden", "Exception", <<"DeepInfra Server: Unauthorized">>)
    ELSE IF code = 404 THEN
        Raise("NotFound", "Exception",
              <<"DeepInfra Server: Model not found ", model_id>>)
    ELSE IF code = 429 THEN
        Raise("RateLimited", "Exception",
              <<"DeepInfra Server: Rate limit exceeded">>)
    ELSE IF code >= 400 THEN
        Raise("InvalidPayload", "ValueError",
              <<"DeepInfra received an invalid payload: ">> \o text)
    ELSE IF code # 200 THEN
        Raise("UnexpectedStatus", "Exception",
              <<"DeepInfra returned an unexpected response with status ",
                ToString(code), ": ">> \o text)
    ELSE NoError

\* each branch is tagged with the outcome it stands for; exc and msg are the
\* exception class and the message raised (403 raises the same message as 401)
_handle_status(code, text) ==
    IF code >= 500 THEN
        Raise("ServerError", "Exception", <<"DeepInfra Server: Error ">> \o text)
    ELSE IF code = 401 THEN
        Raise("Unauthorized", "Exception", <<"DeepInfra Server: Unauthorized">>)
    ELSE IF code = 403 THEN
        Raise("Forbidden", "Exception", <<"DeepInfra Server: Unauthorized">>)
    ELSE IF code = 404 THEN
        Raise("NotFound", "Exception",
              <<"DeepInfra Server: Model not found ", model_id>>)
    ELSE IF code = 429 THEN
        Raise("RateLimited", "Exception",
              <<"DeepInfra Server: Rate limit exceeded">>)
    ELSE IF code >= 400 THEN
        Raise("InvalidPayload", "ValueError",
              <<"DeepInfra received an invalid payload: ">> \o text)
    ELSE IF code # 200 THEN
        Raise("UnexpectedStatus", "Exception",
              <<"DeepInfra returned an unexpected response with status ",
                ToString(code), ": ">> \o text)
    ELSE NoError

-----------------------------------------------------------------------------
(* _body and the bodies the four call modes post *)

NoBody == [nobody |-> TRUE]

\* variant: the configured dict spread after the call-time one
BodyConfigWins(p, kw) ==
    LET mk0 == IF model_kwargs = None THEN EmptyDict ELSE model_kwargs.o
        mk  == DictMerge(kw, mk0)
    IN  DictMerge("input" :> Str(p), mk)

\* self.model_kwargs or {} ; {**model_kwargs, **kwargs} ; {"input": prompt, **model_kwargs}
_body(p, kw) ==
    LET mk0 == IF model_kwargs = None THEN EmptyDict ELSE model_kwargs.o
        mk  == DictMerge(mk0, kw)
    IN  DictMerge("input" :> Str(p), mk)

\* {**kwargs, "stream": True}, the kwargs _stream and _astream pass to _body
StreamKwargs(kw) == DictMerge(kw, "stream" :> Bool(TRUE))

Streaming(m) == m \in {"stream", "astream"}

\* the data argument of request.post / request.apost in each call mode
PostedBody(m) ==
    IF Streaming(m) THEN _body(prompt, StreamKwargs(kwargs))
    ELSE _body(prompt, kwargs)

-----------------------------------------------------------------------------
(* text as lexeme sequences *)

Whitespace == {" ", "\t", "\n"}

StartsWith(s, p) == Len(s) >= Len(p) /\ SubSeq(s, 1, Len(p)) = p

SetMin(S) == CHOOSE x \in S : \A y \in S : x <= y
SetMax(S) == CHOOSE x \in S : \A y \in S : x >= y

\* bytes.strip()
Strip(s) ==
    LET keep == {i \in 1..Len(s) : s[i] \notin Whitespace}
    IN  IF keep = {} THEN <<>> ELSE SubSeq(s, SetMin(keep), SetMax(keep))

\* a Python str: its lexemes
Text(s) == [txt |-> s]
IsText(v) == DOMAIN v = {"txt"}

\* a byte sequence that is not valid UTF-8
BadUtf8 == "0xFF"

UnicodeDecodeError == [raised |-> "UnicodeDecodeError"]

\* bytes.decode("utf-8"): the text, or UnicodeDecodeError on an invalid byte
Utf8Decode(s) ==
    IF \E i \in 1..Len(s) : s[i] = BadUtf8 THEN UnicodeDecodeError ELSE Text(s)

-----------------------------------------------------------------------------
(* _parse_stream_helper *)

\* variant: only the `data: ` prefix (with the space) is accepted
HelperSpaceOnly(l) ==
    IF l # <<>> /\ StartsWith(l, <<"data:", " ">>) THEN
        LET rest == SubSeq(l, 3, Len(l))
        IN  IF Strip(rest) = <<"[DONE]">> THEN None ELSE Utf8Decode(rest)
    ELSE None

\* variant: only `data:` is taken off, never the space after it
HelperColonOnly(l) ==
    IF l # <<>> /\ StartsWith(l, <<"data:">>) THEN
        LET rest == SubSeq(l, 2, Len(l))
        IN  IF Strip(rest) = <<"[DONE]">> THEN None ELSE Utf8Decode(rest)
    ELSE None

\* None, the decoded payload, or UnicodeDecodeError raised by decode
_parse_stream_helper(l) ==
    IF l # <<>> /\ StartsWith(l, <<"data:">>) THEN
        LET rest == IF StartsWith(l, <<"data:", " ">>)
                    THEN SubSeq(l, 3, Len(l)) ELSE SubSeq(l, 2, Len(l))
        IN  IF Strip(rest) = <<"[DONE]">> THEN None ELSE Utf8Decode(rest)
    ELSE None

-----------------------------------------------------------------------------
(* json.loads on lexemes *)

\* the string literals of the alphabet and the Python strings they denote
StringLex == {"\"token\"", "\"text\"", "\"a\"", "\"b\"", "\"\"",
              "\"error\"", "\"terror\"", "\"results\"", "\"generated_text\""}

StrOf(lex) ==
    CASE lex = "\"token\""   -> "token"
      [] lex = "\"text\""    -> "text"
      [] lex = "\"a\""       -> "a"
      [] lex = "\"b\""       -> "b"
      [] lex = "\"\""        -> ""
      [] lex = "\"error\""   -> "error"
      [] lex = "\"terror\""  -> "terror"
      [] lex = "\"results\"" -> "results"
      [] lex = "\"generated_text\"" -> "generated_text"

NumberLex == {"5"}
Num(n) == [n |-> n]
List(l) == [l |-> l]

JSONDecodeError == [raised |-> "JSONDecodeError"]
ParseFail == [ok |-> FALSE, v |-> None, n |-> 0]
ParseOk(v, n) == [ok |-> TRUE, v |-> v, n |-> n]

RECURSIVE ParseValue(_, _), ParseMembers(_, _, _), ParseElements(_, _, _)

\* t: the lexemes without whitespace; i: the position of the value
ParseValue(t, i) ==
    IF i > Len(t) THEN ParseFail
    ELSE IF t[i] \in StringLex THEN ParseOk(Str(StrOf(t[i])), i + 1)
    ELSE IF t[i] \in NumberLex THEN ParseOk(Num(t[i]), i + 1)
    ELSE IF t[i] = "null" THEN ParseOk(None, i + 1)
    ELSE IF t[i] = "true" THEN ParseOk(Bool(TRUE), i + 1)
    ELSE IF t[i] = "false" THEN ParseOk(Bool(FALSE), i + 1)
    ELSE IF t[i] = "{" THEN
        IF i + 1 <= Len(t) /\ t[i + 1] = "}" THEN ParseOk(Dict(EmptyDict), i + 2)
        ELSE ParseMembers(t, i + 1, EmptyDict)
    ELSE IF t[i] = "[" THEN
        IF i + 1 <= Len(t) /\ t[i + 1] = "]" THEN ParseOk(List(<<>>), i + 2)
        ELSE ParseElements(t, i + 1, <<>>)
    ELSE ParseFail

\* key ":" value, then "," and more members or the closing brace
ParseMembers(t, i, acc) ==
    IF i + 1 > Len(t) \/ t[i] \notin StringLex \/ t[i + 1] # ":" THEN ParseFail
    ELSE LET r == ParseValue(t, i + 2)
         IN  IF ~r.ok \/ r.n > Len(t) THEN ParseFail
             ELSE LET acc2 == DictMerge(acc, StrOf(t[i]) :> r.v)
                  IN  IF t[r.n] = "}" THEN ParseOk(Dict(acc2), r.n + 1)
                      ELSE IF t[r.n] = "," THEN ParseMembers(t, r.n + 1, acc2)
                      ELSE ParseFail

ParseElements(t, i, acc) ==
    LET r == ParseValue(t, i)
    IN  IF ~r.ok \/ r.n > Len(t) THEN ParseFail
        ELSE IF t[r.n] = "]" THEN ParseOk(List(Append(acc, r.v)), r.n + 1)
        ELSE IF t[r.n] = "," THEN ParseElements(t, r.n + 1, Append(acc, r.v))
        ELSE ParseFail

\* the value, or JSONDecodeError
json_loads(s) ==
    LET t == SelectSeq(s, LAMBDA x : x \notin Whitespace)
        r == ParseValue(t, 1)
    IN  IF r.ok /\ r.n = Len(t) + 1 THEN r.v ELSE JSONDecodeError

-----------------------------------------------------------------------------
(* _handle_sse_line *)

ValidationError == [raised |-> "ValidationError"]

\* GenerationChunk(text=...): a chunk whose text is a string or absent
GenerationChunk(text) ==
    IF text = None \/ IsStr(text) THEN [text |-> text] ELSE ValidationError

IsChunk(c) == DOMAIN c = {"text"}

\* variant: an empty chunk instead of None when the line cannot be read
SseLineEmptyOnError(l) ==
    LET obj == json_loads(l.txt)
    IN  IF ~IsDict(obj) THEN GenerationChunk(Str(""))
        ELSE LET tok == IF "token" \in DOMAIN obj.o THEN obj.o["token"]
                        ELSE Dict(EmptyDict)
             IN  IF ~IsDict(tok) THEN GenerationChunk(Str(""))
                 ELSE LET text == IF "text" \in DOMAIN tok.o THEN tok.o["text"]
                                  ELSE None
                          c == GenerationChunk(text)
                      IN  IF IsChunk(c) THEN c ELSE GenerationChunk(Str(""))

\* variant: obj["token"]["text"] instead of the two .get calls
SseLineStrict(l) ==
    LET obj == json_loads(l.txt)
    IN  IF ~IsDict(obj) THEN None
        ELSE IF "token" \notin DOMAIN obj.o THEN None
        ELSE LET tok == obj.o["token"]
             IN  IF ~IsDict(tok) THEN None
                 ELSE IF "text" \notin DOMAIN tok.o THEN None
                 ELSE LET c == GenerationChunk(tok.o["text"])
                      IN  IF IsChunk(c) THEN c ELSE None

\* json.loads, obj.get("token", {}).get("text"), GenerationChunk; any
\* exception on the way (JSONDecodeError, AttributeError of a value without
\* .get, ValidationError) is caught and None returned
_handle_sse_line(l) ==
    LET obj == json_loads(l.txt)
    IN  IF ~IsDict(obj) THEN None
        ELSE LET tok == IF "token" \in DOMAIN obj.o THEN obj.o["token"]
                        ELSE Dict(EmptyDict)
             IN  IF ~IsDict(tok) THEN None
                 ELSE LET text == IF "text" \in DOMAIN tok.o THEN tok.o["text"]
                                  ELSE None
                          c == GenerationChunk(text)
                      IN  IF IsChunk(c) THEN c ELSE None

-----------------------------------------------------------------------------
(* the raw lines a server can put on the wire *)

TokA      == <<"data:", " ", "{", "\"token\"", ":", "{", "\"text\"", ":", "\"a\"", "}", "}">>
TokB      == <<"data:", "{", "\"token\"", ":", " ", "{", "\"text\"", ":", "\"b\"", "}", "}">>
TokEmpty  == <<"data:", " ", "{", "\"token\"", ":", "{", "\"text\"", ":", "\"\"", "}", "}">>
TokSpace  == <<"data:", " ", " ", "{", "\"token\"", ":", "{", "\"text\"", ":", "\"a\"", "}", "}">>
Done      == <<"data:", " ", "[DONE]">>
DoneTight == <<"data:", "[DONE]", " ">>
Blank     == <<>>
Comment   == <<":", "keep-alive">>
EventLine == <<"event:", " ", "token">>
Indented  == <<" ", "data:", " ", "{", "\"token\"", ":", "{", "\"text\"", ":", "\"a\"", "}", "}">>
Malformed == <<"data:", " ", "{", "not", " ", "json">>
Truncated == <<"data:", " ", "{", "\"token\"", ":", "{", "\"text\"", ":", "\"a\"", "}">>
NoPayload == <<"data:">>
NoToken   == <<"data:", " ", "{", "}">>
NoText    == <<"data:", " ", "{", "\"token\"", ":", "{", "}", "}">>
TextNull  == <<"data:", " ", "{", "\"token\"", ":", "{", "\"text\"", ":", "null", "}", "}">>
TokenNull == <<"data:", " ", "{", "\"token\"", ":", "null", "}">>
Scalar    == <<"data:", " ", "\"a\"">>
ErrLine   == <<"data:", " ", "{", "\"error\"", ":", "\"a\"", "}">>
TokTerror == <<"data:", " ", "{", "\"token\"", ":", "{", "\"text\"", ":", "\"terror\"", "}", "}">>
BadBytes  == <<"data:", " ", BadUtf8>>

Hello      == <<"{", "\"results\"", ":", "[", "{", "\"generated_text\"", ":", "\"a\"", "}", "]", "}">>
HelloTwo   == <<"{", "\"results\"", ":", "[", "{", "\"generated_text\"", ":", "\"b\"", "}", ",",
                "{", "\"generated_text\"", ":", "\"a\"", "}", "]", "}">>
NoResults  == <<"{", "}">>
NoneInside == <<"{", "\"results\"", ":", "[", "]", "}">>
NoGenText  == <<"{", "\"results\"", ":", "[", "{", "}", "]", "}">>
NotJson    == <<"not", " ", "json">>

-----------------------------------------------------------------------------
(* the transport: the body travels as one text, each line ended by "\n" *)

RECURSIVE Wire(_)
Wire(ls) == IF ls = <<>> THEN <<>> ELSE Head(ls) \o <<"\n">> \o Wire(Tail(ls))

RECURSIVE SplitAt(_, _, _)
\* the lines of text t; cur is the line being collected; keep: with their "\n"
SplitAt(t, cur, keep) ==
    IF t = <<>> THEN (IF cur = <<>> THEN <<>> ELSE <<cur>>)
    ELSE IF Head(t) = "\n"
         THEN <<IF keep THEN Append(cur, "\n") ELSE cur>> \o SplitAt(Tail(t), <<>>, keep)
         ELSE SplitAt(Tail(t), Append(cur, Head(t)), keep)

Sync(m) == m \in {"call", "stream"}

\* requests: response.iter_lines() of a response whose content was read walks
\* the cached content from its start, lines without their terminator
iter_lines(content) == SplitAt(content, <<>>, FALSE)

\* aiohttp: iterating response.content reads what is left of the stream,
\* line by line, each with its terminator
content_lines(wire, pos) == SplitAt(SubSeq(wire, pos + 1, Len(wire)), <<>>, TRUE)

\* the lexemes that contain the characters e r r o r
ErrorLexemes == {"\"error\"", "\"terror\""}

ContainsQuotedError(text) == \E i \in 1..Len(text) : text[i] = "\"error\""

\* "error" in response_text
ContainsError(text) == \E i \in 1..Len(text) : text[i] \in ErrorLexemes

\* what _handle_status gets as text: the body text in the sync modes, the
\* bound method response.text (never called) in the async modes
BoundMethod == <<"<bound method ClientResponse.text>">>
StatusText(m) == IF Sync(m) THEN Wire(body) ELSE BoundMethod

-----------------------------------------------------------------------------
(* data["results"][0]["generated_text"] *)

MalformedResponse(exc) == Raise("MalformedResponse", exc, <<>>)

IsList(v) == DOMAIN v = {"l"}
IsRaised(v) == DOMAIN v = {"raised"}

\* variant: the last element of results is taken in place of the first
GeneratedTextLast(data) ==
    IF IsRaised(data) THEN MalformedResponse("JSONDecodeError")
    ELSE IF ~IsDict(data) THEN MalformedResponse("TypeError")
    ELSE IF "results" \notin DOMAIN data.o THEN MalformedResponse("KeyError")
    ELSE LET rs == data.o["results"]
         IN  IF ~IsList(rs) THEN MalformedResponse("TypeError")
             ELSE IF rs.l = <<>> THEN MalformedResponse("IndexError")
             ELSE LET r0 == rs.l[Len(rs.l)]
                  IN  IF ~IsDict(r0) THEN MalformedResponse("TypeError")
                      ELSE IF "generated_text" \notin DOMAIN r0.o THEN MalformedResponse("KeyError")
                      ELSE r0.o["generated_text"]


GeneratedText(data) ==
    IF IsRaised(data) THEN MalformedResponse("JSONDecodeError")
    ELSE IF ~IsDict(data) THEN MalformedResponse("TypeError")
    ELSE IF "results" \notin DOMAIN data.o THEN MalformedResponse("KeyError")
    ELSE LET rs == data.o["results"]
         IN  IF IsDict(rs) THEN MalformedResponse("KeyError")
             ELSE IF IsStr(rs) THEN
                 (IF rs.s = "" THEN MalformedResponse("IndexError") ELSE MalformedResponse("TypeError"))
             ELSE IF ~IsList(rs) THEN MalformedResponse("TypeError")
             ELSE IF rs.l = <<>> THEN MalformedResponse("IndexError")
             ELSE LET r0 == rs.l[1]
                  IN  IF ~IsDict(r0) THEN MalformedResponse("TypeError")
                      ELSE IF "generated_text" \notin DOMAIN r0.o THEN MalformedResponse("KeyError")
                      ELSE r0.o["generated_text"]

-----------------------------------------------------------------------------
(* inputs *)

MaxLines == 3
MaxParams == 2

RECURSIVE SeqsUpTo(_, _)
SeqsUpTo(S, n) ==
    IF n = 0 THEN {<<>>}
    ELSE LET shorter == SeqsUpTo(S, n - 1)
         IN  shorter \cup {Append(q, x) : q \in shorter, x \in S}

Modes == {"call", "acall", "stream", "astream"}
Prompts == {"p", "q"}

ParamKeys == {"input", "stream", "temperature", "max_new_tokens"}
ParamValues(k) ==
    CASE k = "input"          -> {Str("z")}
      [] k = "stream"         -> {Bool(TRUE), Bool(FALSE)}
      [] k = "temperature"    -> {Num("0.1"), Num("0.9")}
      [] k = "max_new_tokens" -> {Num("5")}

AllValues == UNION {ParamValues(k) : k \in ParamKeys}

\* the dicts of at most MaxParams parameters
ParamDicts ==
    UNION {{f \in [K -> AllValues] : \A k \in K : f[k] \in ParamValues(k)} :
           K \in {K \in SUBSET ParamKeys : Cardinality(K) <= MaxParams}}

StatusCodes == {200, 204, 401, 404, 418, 500}

StreamLines == {TokA, TokB, Done, Malformed, ErrLine, TokTerror}
StreamBodies == SeqsUpTo(StreamLines, MaxLines)
BlockingBodies == {<<Hello>>, <<HelloTwo>>, <<NoResults>>, <<NoneInside>>,
                   <<NoGenText>>, <<NotJson>>, <<>>}

Bodies(m) == IF Streaming(m) THEN StreamBodies ELSE BlockingBodies

-----------------------------------------------------------------------------
(* one call *)

Ended(p) == p \in {"done", "failed", "closed"}

\* variant: the connection is given back only by a line after the loop, so an
\* exception or a closed generator leaves it open
ConnAfterOnNormalEnd(newpc, drained) ==
    IF Sync(mode) THEN (IF drained THEN "released" ELSE conn)
    ELSE (IF newpc = "done" THEN "released" ELSE conn)

\* the connection after a step: requests gives it back once the body has been
\* read; aiohttp's `async with` gives it back when the call leaves the block
ConnAfter(newpc, drained) ==
    IF Sync(mode) THEN (IF drained THEN "released" ELSE conn)
    ELSE (IF Ended(newpc) THEN "released" ELSE conn)

Fresh ==
    /\ pc = "idle"
    /\ sent = NoBody
    /\ status = 0
    /\ body = <<>>
    /\ rpos = 0
    /\ response_text = None
    /\ lines = <<>>
    /\ fed = <<>>
    /\ decoded = <<>>
    /\ line = None
    /\ chunk = None
    /\ observed = <<>>
    /\ delivered = <<>>
    /\ err = NoError
    /\ result = None
    /\ conn = "none"

Init ==
    /\ Fresh
    /\ mode \in Modes
    /\ prompt = "p"
    /\ model_kwargs \in {None, Dict("temperature" :> Num("0.1"))}
    /\ kwargs \in {EmptyDict, "temperature" :> Num("0.9")}
    /\ run_manager \in BOOLEAN

\* request.post / request.apost with the body of the mode
Post ==
    /\ pc = "idle"
    /\ sent' = PostedBody(mode)
    /\ conn' = "open"
    /\ pc' = "posted"
    /\ UNCHANGED <<decoded, mode, prompt, model_kwargs, kwargs, run_manager, status, body,
                   rpos, response_text, lines, fed, line, chunk, observed,
                   delivered, err, result>>

\* the response arrives: its status, and its body on the wire
Respond ==
    /\ pc = "posted"
    /\ \E st \in StatusCodes, b \in Bodies(mode) :
          /\ status' = st
          /\ body' = b
    /\ pc' = IF Streaming(mode) THEN "check" ELSE "classify"
    /\ UNCHANGED <<decoded, mode, prompt, model_kwargs, kwargs, run_manager, sent, rpos,
                   response_text, lines, fed, line, chunk, observed, delivered,
                   err, result, conn>>

\* variant: the status is classified before the text is tested
CheckTextStatusFirst ==
    /\ pc = "check"
    /\ response_text' = Text(Wire(body))
    /\ rpos' = Len(Wire(body))
    /\ IF _handle_status(status, StatusText(mode)) # NoError
       THEN /\ pc' = "failed"
            /\ err' = _handle_status(status, StatusText(mode))
            /\ conn' = ConnAfter("failed", TRUE)
       ELSE IF ContainsError(Wire(body))
       THEN /\ pc' = "failed"
            /\ err' = Raise("UpstreamEmbeddedError", "Exception",
                            <<"DeepInfra Server: ">> \o Wire(body))
            /\ conn' = ConnAfter("failed", TRUE)
       ELSE /\ pc' = "classify"
            /\ err' = err
            /\ conn' = ConnAfter("classify", TRUE)
    /\ UNCHANGED <<decoded, mode, prompt, model_kwargs, kwargs, run_manager, sent, status,
                   body, lines, fed, line, chunk, observed, delivered, result>>

\* response_text = response.text / await response.text(): the whole body is
\* read off the transport; then the test for "error"
CheckText ==
    /\ pc = "check"
    /\ response_text' = Text(Wire(body))
    /\ rpos' = Len(Wire(body))
    /\ IF ContainsError(Wire(body))
       THEN /\ pc' = "failed"
            /\ err' = Raise("UpstreamEmbeddedError", "Exception",
                            <<"DeepInfra Server: ">> \o Wire(body))
            /\ conn' = ConnAfter("failed", TRUE)
       ELSE /\ pc' = "classify"
            /\ err' = err
            /\ conn' = ConnAfter("classify", TRUE)
    /\ UNCHANGED <<decoded, mode, prompt, model_kwargs, kwargs, run_manager, sent, status,
                   body, lines, fed, line, chunk, observed, delivered, result>>

\* variant: the outcome of _handle_status is not raised in the streaming modes,
\* so the line loop starts whatever the status
ClassifyIgnoresStatus ==
    /\ pc = "classify"
    /\ LET o == _handle_status(status, StatusText(mode))
           drained == Sync(mode)
           newpc == IF Streaming(mode) THEN "iter"
                    ELSE IF o # NoError THEN "failed" ELSE "json"
       IN  /\ err' = IF newpc = "failed" THEN o ELSE NoError
           /\ pc' = newpc
           /\ rpos' = IF drained THEN Len(Wire(body)) ELSE rpos
           /\ conn' = ConnAfter(newpc, drained)
           /\ lines' = IF newpc = "iter"
                       THEN (IF Sync(mode) THEN iter_lines(Wire(body))
                             ELSE content_lines(Wire(body), rpos))
                       ELSE lines
    /\ UNCHANGED <<decoded, mode, prompt, model_kwargs, kwargs, run_manager, sent, status,
                   body, response_text, fed, line, chunk, observed, delivered,
                   result>>

\* self._handle_status(...); in the streaming modes the line iterator is then
\* created over the response
Classify ==
    /\ pc = "classify"
    /\ LET o == _handle_status(status, StatusText(mode))
           drained == Sync(mode)
           newpc == IF o # NoError THEN "failed"
                    ELSE IF Streaming(mode) THEN "iter" ELSE "json"
       IN  /\ err' = o
           /\ pc' = newpc
           /\ rpos' = IF drained THEN Len(Wire(body)) ELSE rpos
           /\ conn' = ConnAfter(newpc, drained)
           /\ lines' = IF newpc = "iter"
                       THEN (IF Sync(mode) THEN iter_lines(Wire(body))
                             ELSE content_lines(Wire(body), rpos))
                       ELSE lines
    /\ UNCHANGED <<decoded, mode, prompt, model_kwargs, kwargs, run_manager, sent, status,
                   body, response_text, fed, line, chunk, observed, delivered,
                   result>>

\* data = response.json(); return data["results"][0]["generated_text"]
ParseJson ==
    /\ pc = "json"
    /\ LET r == GeneratedText(json_loads(Wire(body)))
       IN  IF DOMAIN r = DOMAIN NoError
           THEN /\ pc' = "failed"
                /\ err' = r
                /\ result' = result
                /\ conn' = ConnAfter("failed", TRUE)
           ELSE /\ pc' = "done"
                /\ err' = err
                /\ result' = r
                /\ conn' = ConnAfter("done", TRUE)
    /\ rpos' = Len(Wire(body))
    /\ UNCHANGED <<decoded, mode, prompt, model_kwargs, kwargs, run_manager, sent, status,
                   body, response_text, lines, fed, line, chunk, observed,
                   delivered>>

\* variant: the loop of _parse_stream is left at the [DONE] line
NextLineStopsAtDone ==
    /\ pc = "iter"
    /\ IF lines = <<>>
       THEN /\ pc' = "done"
            /\ conn' = ConnAfter("done", FALSE)
            /\ UNCHANGED <<lines, fed, decoded, line, err>>
       ELSE LET d == _parse_stream_helper(Head(lines))
                isDone == /\ StartsWith(Head(lines), <<"data:">>)
                          /\ Strip(Tail(Head(lines))) = <<"[DONE]">>
                newpc == IF d = UnicodeDecodeError THEN "failed"
                         ELSE IF isDone THEN "done"
                         ELSE IF d = None THEN "iter" ELSE "handle"
            IN  /\ lines' = Tail(lines)
                /\ fed' = Append(fed, Head(lines))
                /\ decoded' = Append(decoded, d)
                /\ pc' = newpc
                /\ line' = IF newpc = "handle" THEN d ELSE line
                /\ err' = IF newpc = "failed"
                          THEN Raise("UnicodeDecodeError", "UnicodeDecodeError", <<>>)
                          ELSE err
                /\ conn' = ConnAfter(newpc, FALSE)
    /\ UNCHANGED <<mode, prompt, model_kwargs, kwargs, run_manager, sent, status,
                   body, rpos, response_text, chunk, observed, delivered, result>>

\* _parse_stream: the next raw line is taken from the line iterator and put
\* through _parse_stream_helper; None is skipped, a decoded line is yielded to
\* the for loop of _stream / _astream; the iterator running out ends the call
NextLine ==
    /\ pc = "iter"
    /\ IF lines = <<>>
       THEN /\ pc' = "done"
            /\ conn' = ConnAfter("done", FALSE)
            /\ UNCHANGED <<lines, fed, decoded, line, err>>
       ELSE LET d == _parse_stream_helper(Head(lines))
                newpc == IF d = UnicodeDecodeError THEN "failed"
                         ELSE IF d = None THEN "iter" ELSE "handle"
            IN  /\ lines' = Tail(lines)
                /\ fed' = Append(fed, Head(lines))
                /\ decoded' = Append(decoded, d)
                /\ pc' = newpc
                /\ line' = IF newpc = "handle" THEN d ELSE line
                /\ err' = IF newpc = "failed"
                          THEN Raise("UnicodeDecodeError", "UnicodeDecodeError", <<>>)
                          ELSE err
                /\ conn' = ConnAfter(newpc, FALSE)
    /\ UNCHANGED <<mode, prompt, model_kwargs, kwargs, run_manager, sent, status,
                   body, rpos, response_text, chunk, observed, delivered, result>>

\* variant: the chunk is yielded without telling the run manager
HandleLineNoObserver ==
    /\ pc = "handle"
    /\ chunk' = _handle_sse_line(line)
    /\ pc' = IF IsChunk(chunk') THEN "yield" ELSE "iter"
    /\ UNCHANGED <<decoded, mode, prompt, model_kwargs, kwargs, run_manager, sent, status,
                   body, rpos, response_text, lines, fed, line, observed,
                   delivered, err, result, conn>>

\* chunk = _handle_sse_line(line); if chunk: ...
HandleLine ==
    /\ pc = "handle"
    /\ chunk' = _handle_sse_line(line)
    /\ pc' = IF IsChunk(chunk')
             THEN (IF run_manager THEN "notify" ELSE "yield")
             ELSE "iter"
    /\ UNCHANGED <<decoded, mode, prompt, model_kwargs, kwargs, run_manager, sent, status,
                   body, rpos, response_text, lines, fed, line, observed,
                   delivered, err, result, conn>>

\* run_manager.on_llm_new_token(chunk.text) returns
Notify ==
    /\ pc = "notify"
    /\ observed' = Append(observed, chunk.text)
    /\ pc' = "yield"
    /\ UNCHANGED <<decoded, mode, prompt, model_kwargs, kwargs, run_manager, sent, status,
                   body, rpos, response_text, lines, fed, line, chunk, delivered,
                   err, result, conn>>

\* variant: the observer's exception is caught and kept, and the chunk is
\* yielded all the same
NotifyFailsCaught ==
    /\ pc = "notify"
    /\ pc' = "yield"
    /\ err' = Raise("ObserverError", "Exception", <<>>)
    /\ conn' = ConnAfter("yield", FALSE)
    /\ UNCHANGED <<decoded, mode, prompt, model_kwargs, kwargs, run_manager, sent, status,
                   body, rpos, response_text, lines, fed, line, chunk, observed,
                   delivered, result>>

\* run_manager.on_llm_new_token(chunk.text) raises: nothing catches it
NotifyFails ==
    /\ pc = "notify"
    /\ pc' = "failed"
    /\ err' = Raise("ObserverError", "Exception", <<>>)
    /\ conn' = ConnAfter("failed", FALSE)
    /\ UNCHANGED <<decoded, mode, prompt, model_kwargs, kwargs, run_manager, sent, status,
                   body, rpos, response_text, lines, fed, line, chunk, observed,
                   delivered, result>>

\* yield chunk: the chunk is handed to the consumer and the generator waits
Yield ==
    /\ pc = "yield"
    /\ delivered' = Append(delivered, chunk)
    /\ pc' = "suspended"
    /\ UNCHANGED <<decoded, mode, prompt, model_kwargs, kwargs, run_manager, sent, status,
                   body, rpos, response_text, lines, fed, line, chunk, observed,
                   err, result, conn>>

\* the consumer asks for the next chunk
Resume ==
    /\ pc = "suspended"
    /\ pc' = "iter"
    /\ UNCHANGED <<decoded, mode, prompt, model_kwargs, kwargs, run_manager, sent, status,
                   body, rpos, response_text, lines, fed, line, chunk, observed,
                   delivered, err, result, conn>>

\* the consumer closes the generator instead
Abandon ==
    /\ pc = "suspended"
    /\ pc' = "closed"
    /\ conn' = ConnAfter("closed", FALSE)
    /\ UNCHANGED <<decoded, mode, prompt, model_kwargs, kwargs, run_manager, sent, status,
                   body, rpos, response_text, lines, fed, line, chunk, observed,
                   delivered, err, result>>

Next ==
    \/ Post
    \/ Respond
    \/ CheckText
    \/ Classify
    \/ ParseJson
    \/ NextLine
    \/ HandleLine
    \/ Notify
    \/ NotifyFails
    \/ Yield
    \/ Resume
    \/ Abandon

Spec == Init /\ [][Next]_vars

-----------------------------------------------------------------------------
(* _handle_status on every status code *)

MaxCode == 600

InitStatus ==
    /\ mode \in Modes
    /\ prompt = "p"
    /\ model_kwargs = None
    /\ kwargs = EmptyDict
    /\ run_manager = FALSE
    /\ sent = PostedBody(mode)
    /\ status \in 0..MaxCode
    /\ body \in IF Streaming(mode) THEN {<<>>, <<TokA>>} ELSE {<<>>, <<Hello>>}
    /\ rpos = IF Streaming(mode) THEN Len(Wire(body)) ELSE 0
    /\ response_text = IF Streaming(mode) THEN Text(Wire(body)) ELSE None
    /\ pc = "classify"
    /\ lines = <<>>
    /\ fed = <<>>
    /\ decoded = <<>>
    /\ line = None
    /\ chunk = None
    /\ observed = <<>>
    /\ delivered = <<>>
    /\ err = NoError
    /\ result = None
    /\ conn = IF mode = "stream" THEN "released" ELSE "open"

NextStatus == Classify

SpecStatus == InitStatus /\ [][NextStatus]_vars

-----------------------------------------------------------------------------
(* _body on every prompt, configured dict and call-time dict *)

InitBody ==
    /\ Fresh
    /\ mode \in Modes
    /\ prompt \in Prompts
    /\ model_kwargs \in {None} \cup {Dict(d) : d \in ParamDicts}
    /\ kwargs \in ParamDicts
    /\ run_manager = FALSE

NextBody == Post

SpecBody == InitBody /\ [][NextBody]_vars

-----------------------------------------------------------------------------
(* _parse_stream and the for loop of _stream on every sequence of raw lines:  *)
(* the loop starts on an iterator over the lines, whatever they hold         *)

CoreLines == {TokA, TokB, Done, Blank, Comment, Malformed, NoToken, BadBytes}
RawLines == CoreLines \cup
            {TokEmpty, TokSpace, DoneTight, EventLine, Indented, Truncated,
             NoPayload, NoText, TextNull, TokenNull, Scalar, ErrLine, TokTerror}

\* every sequence of core lines, and every raw line alone, before and after a token line
PipeInputs ==
    SeqsUpTo(CoreLines, MaxLines)
      \cup {<<l>> : l \in RawLines}
      \cup {<<l, TokB>> : l \in RawLines}
      \cup {<<TokB, l>> : l \in RawLines}

InitPipe ==
    /\ mode = "stream"
    /\ prompt = "p"
    /\ model_kwargs = None
    /\ kwargs = EmptyDict
    /\ run_manager \in BOOLEAN
    /\ sent = PostedBody(mode)
    /\ status = 200
    /\ body \in PipeInputs
    /\ rpos = Len(Wire(body))
    /\ response_text = None
    /\ pc = "iter"
    /\ lines = iter_lines(Wire(body))
    /\ fed = <<>>
    /\ decoded = <<>>
    /\ line = None
    /\ chunk = None
    /\ observed = <<>>
    /\ delivered = <<>>
    /\ err = NoError
    /\ result = None
    /\ conn = "released"

NextPipe ==
    \/ NextLine
    \/ HandleLine
    \/ Notify
    \/ NotifyFails
    \/ Yield
    \/ Resume
    \/ Abandon

SpecPipe == InitPipe /\ [][NextPipe]_vars

-----------------------------------------------------------------------------
(* Properties of _handle_status, under SpecStatus *)

Classified == pc # "classify"

\* the outcome the precedence table gives a status code, as disjoint cases
TableKind(c) ==
    CASE c >= 500 -> "ServerError"
      [] c = 401 -> "Unauthorized"
      [] c = 403 -> "Forbidden"
      [] c = 404 -> "NotFound"
      [] c = 429 -> "RateLimited"
      [] c \in (400..499) \ {401, 403, 404, 429} -> "InvalidPayload"
      [] c < 400 /\ c # 200 -> "UnexpectedStatus"
      [] c = 200 -> "Success"

\* C1: for every status code and body text, _handle_status gives the outcome
\* of the precedence table (first match: >= 500, 401, 403, 404, 429, other
\* 4xx, other non-200, 200); it raises exactly when the outcome is not
\* Success, and a call that raised goes no further.
C1_ClassifyFollowsTable ==
    Classified =>
        /\ err.kind = TableKind(status)
        /\ (err = NoError) <=> (status = 200)
        /\ (pc = "failed") <=> (status # 200)

C1_Witness ==
    /\ Classified
    /\ status = 403
    /\ err.kind = "Forbidden"
    /\ pc = "failed"

\* C2 as stated: 500 -> ServerError, 404 -> NotFound, 429 -> RateLimited,
\* 422 -> InvalidPayload, 200 -> Success and 418 -> UnexpectedStatus.
C2_ExamplesAsStated ==
    Classified =>
        /\ status = 500 => err.kind = "ServerError"
        /\ status = 404 => err.kind = "NotFound"
        /\ status = 429 => err.kind = "RateLimited"
        /\ status = 422 => err.kind = "InvalidPayload"
        /\ status = 200 => err.kind = "Success"
        /\ status = 418 => err.kind = "UnexpectedStatus"

\* C2 amended: the same examples, with 418 -> InvalidPayload (418 is one of
\* the other 4xx codes, and raises ValueError like 422).
C2_Examples ==
    Classified =>
        /\ status = 500 => err.kind = "ServerError"
        /\ status = 404 => err.kind = "NotFound"
        /\ status = 429 => err.kind = "RateLimited"
        /\ status = 422 => err.kind = "InvalidPayload" /\ err.exc = "ValueError"
        /\ status = 200 => err.kind = "Success"
        /\ status = 418 => err.kind = "InvalidPayload" /\ err.exc = "ValueError"

C2_Witness ==
    /\ Classified
    /\ status = 418
    /\ err.kind = "InvalidPayload"
    /\ err.exc = "ValueError"

-----------------------------------------------------------------------------
(* Properties of the request body, under SpecBody *)

Posted == pc = "posted"

ConfiguredDict == IF model_kwargs = None THEN EmptyDict ELSE model_kwargs.o

\* C8 as stated: for every prompt, configured dict and call-time dict, the
\* body posted in each of the four call modes has `input` equal to the prompt.
C8_InputIsPrompt ==
    Posted => "input" \in DOMAIN sent /\ sent["input"] = Str(prompt)

\* C9 as stated: the body of a blocking call (_call, _acall) never has
\* stream = true, and the body of a streaming call (_stream, _astream) always
\* has it, whatever the configured and call-time dicts hold.
C9_StreamOnlyWhenStreaming ==
    Posted =>
        ("stream" \in DOMAIN sent /\ sent["stream"] = Bool(TRUE)) <=> Streaming(mode)

\* C10 as stated: every key of the configured dict or of the call-time dict
\* is in the body; a key of only one of them keeps its value, and a key of
\* both has the call-time value.
C10_MergeAsStated ==
    Posted =>
        \A k \in DOMAIN ConfiguredDict \cup DOMAIN kwargs :
            /\ k \in DOMAIN sent
            /\ sent[k] = IF k \in DOMAIN kwargs THEN kwargs[k] ELSE ConfiguredDict[k]

\* C10 amended: as stated for every key except `stream` in the streaming
\* modes, where the body has stream = true whatever the two dicts say; and the
\* body has no key besides these and `input`.
C10_Merge ==
    Posted =>
        /\ \A k \in DOMAIN ConfiguredDict \cup DOMAIN kwargs :
              /\ k \in DOMAIN sent
              /\ sent[k] = IF Streaming(mode) /\ k = "stream" THEN Bool(TRUE)
                           ELSE IF k \in DOMAIN kwargs THEN kwargs[k]
                           ELSE ConfiguredDict[k]
        /\ DOMAIN sent = DOMAIN ConfiguredDict \cup DOMAIN kwargs \cup {"input"}
                           \cup (IF Streaming(mode) THEN {"stream"} ELSE {})

\* a key of both dicts with different values, posted
C10_Witness ==
    /\ Posted
    /\ "temperature" \in DOMAIN ConfiguredDict \cap DOMAIN kwargs
    /\ ConfiguredDict["temperature"] # kwargs["temperature"]
    /\ sent["temperature"] = kwargs["temperature"]
    /\ "max_new_tokens" \in DOMAIN ConfiguredDict \ DOMAIN kwargs
    /\ sent["max_new_tokens"] = ConfiguredDict["max_new_tokens"]

-----------------------------------------------------------------------------
(* Properties of the decoder and the interpreter, under SpecPipe *)

\* the raw lines by what they are, written out line by line
TextOf(l) ==
    CASE l \in {TokA, TokSpace} -> "a"
      [] l = TokB -> "b"
      [] l = TokEmpty -> ""
      [] l = TokTerror -> "terror"

TextTokenLines == {TokA, TokSpace, TokB, TokEmpty, TokTerror}
AbsentTextLines == {NoToken, NoText, TextNull, ErrLine}
MalformedLines == {Malformed, Truncated, NoPayload}
UndecodableLines == {BadBytes}
ChunkLines == TextTokenLines \cup AbsentTextLines

RECURSIVE TextsOfLines(_)
TextsOfLines(ls) ==
    IF ls = <<>> THEN <<>>
    ELSE (IF Head(ls) \in TextTokenLines THEN <<Str(TextOf(Head(ls)))>> ELSE <<>>)
           \o TextsOfLines(Tail(ls))

\* the texts of the chunks that carry one
TextsDelivered == SelectSeq([i \in 1..Len(delivered) |-> delivered[i].text], IsStr)

\* the raw lines the loop is through with: all that were fed, but the last one
\* while the loop still holds it or the call failed on it
Settled ==
    IF pc \in {"handle", "notify", "yield", "failed"}
    THEN SubSeq(fed, 1, Len(fed) - 1) ELSE fed

LastFed == fed[Len(fed)]

\* C3 as stated: for every sequence of raw lines, once the pipeline is through
\* (and neither the observer failed nor the consumer left), the chunks yielded
\* are the texts of the token lines of the input, in order, none lost.
C3_AllTokenLinesYieldedAsStated ==
    (pc \in {"done", "failed"} /\ err.kind # "ObserverError") =>
        TextsDelivered = TextsOfLines(body)

\* C3 amended: the lines are fed in input order, each once; the texts yielded
\* are exactly the texts of the token lines the loop is through with, in
\* order; the only line the decoder raises on is a data line that is not
\* valid UTF-8, which ends the stream with UnicodeDecodeError; so for every
\* input without such a line a finished stream has yielded the texts of all
\* its token lines, and empty, non-data and [DONE] lines raised nothing.
C3_TokenLinesYielded ==
    /\ fed \o lines = body
    /\ TextsDelivered = TextsOfLines(Settled)
    /\ pc = "done" => fed = body
    /\ (pc = "failed" /\ err.kind # "ObserverError") =>
          err.kind = "UnicodeDecodeError" /\ LastFed \in UndecodableLines
    /\ (\A i \in 1..Len(body) : body[i] \notin UndecodableLines) =>
          /\ err.kind \in {"Success", "ObserverError"}
          /\ (pc = "done" => TextsDelivered = TextsOfLines(body))

C3_Witness ==
    /\ pc = "done"
    /\ body = <<TokA, TokB, Done>>
    /\ delivered = <<[text |-> Str("a")], [text |-> Str("b")]>>
    /\ err = NoError

\* C6: a data line whose payload is not JSON yields no chunk, raises nothing
\* and does not end the loop; the token lines fed after it yield their chunks.
C6_MalformedLineSkipped ==
    /\ (fed # <<>> /\ LastFed \in MalformedLines) =>
          /\ pc \in {"handle", "iter", "done"}
          /\ pc = "done" => lines = <<>>
          /\ err = NoError
    /\ pc = "done" =>
          \A i \in 1..Len(fed) : \A j \in (i + 1)..Len(fed) :
              (fed[i] \in MalformedLines /\ fed[j] \in TextTokenLines) =>
                  LET k == Cardinality({n \in 1..j : fed[n] \in ChunkLines})
                  IN  /\ k <= Len(delivered)
                      /\ delivered[k].text = Str(TextOf(fed[j]))

C6_Witness ==
    /\ pc = "done"
    /\ body = <<TokA, Malformed, TokB>>
    /\ delivered = <<[text |-> Str("a")], [text |-> Str("b")]>>
    /\ err = NoError

AbsentTextsDelivered ==
    Cardinality({i \in 1..Len(delivered) : delivered[i].text = None})

-----------------------------------------------------------------------------
(* Properties of a streaming call, under Spec *)

\* C4: a streaming call (sync or async) whose body text contains "error" in
\* quotes fails with the embedded-error exception, whatever the status code,
\* with no line fed to the decoder, no chunk yielded and no observer call.
C4_EmbeddedErrorFirst ==
    (Streaming(mode) /\ pc \notin {"idle", "posted", "check"}
       /\ ContainsQuotedError(Wire(body))) =>
        /\ pc = "failed"
        /\ err.kind = "UpstreamEmbeddedError"
        /\ err.msg = <<"DeepInfra Server: ">> \o Wire(body)
        /\ fed = <<>>
    /\ decoded = <<>>
        /\ delivered = <<>>
        /\ observed = <<>>

C4_Witness ==
    /\ mode = "astream"
    /\ status = 500
    /\ body = <<TokA, ErrLine>>
    /\ pc = "failed"
    /\ err.kind = "UpstreamEmbeddedError"

\* C5: in a streaming call with an observer, the observer calls that returned
\* carry the texts of the chunks in order; call i returns before chunk i is
\* handed to the consumer and after chunk i-1 was; whenever the generator
\* waits or the call has ended, there are as many calls as chunks delivered.
C5_ObserverBeforeDelivery ==
    (Streaming(mode) /\ run_manager) =>
        /\ Len(observed) \in {Len(delivered), Len(delivered) + 1}
        /\ \A i \in 1..Len(delivered) : observed[i] = delivered[i].text
        /\ (Len(observed) = Len(delivered) + 1) <=> (pc = "yield")
        /\ pc = "yield" => observed[Len(observed)] = chunk.text

C5_Witness ==
    /\ mode = "stream"
    /\ run_manager
    /\ pc = "done"
    /\ delivered = <<[text |-> Str("a")], [text |-> Str("b")]>>
    /\ observed = <<Str("a"), Str("b")>>


-----------------------------------------------------------------------------
(* C11: the connection of a streaming call *)

\* C11: a streaming call of either regime that has ended, by running out of
\* lines, by raising (embedded error, status other than 200, observer failure,
\* undecodable line) or by its consumer closing it, has given its connection
\* back; a connection is held only between the request and that end
C11_ConnectionReleased ==
    Streaming(mode) =>
        /\ Ended(pc) => conn = "released"
        /\ pc = "idle" <=> conn = "none"
        /\ conn = "open" => pc \in {"posted", "check", "classify", "iter"}

\* an asynchronous call that raised on the status inside `async with`
C11_Witness ==
    /\ mode = "astream"
    /\ pc = "failed"
    /\ err.kind = "Unauthorized"
    /\ conn = "released"


-----------------------------------------------------------------------------
(* C12: the lifecycle of a streaming call *)

\* the lifecycle state of a call at a given place in the code; the step that
\* classifies the status as Success also creates the line iterator, so
\* StatusClassified is the entry into StreamingChunks
Phase(p) ==
    CASE p = "idle" -> "Idle"
      [] p \in {"posted", "check", "classify"} -> "RequestSent"
      [] p = "failed" -> "Erroring"
      [] p \in {"iter", "handle", "notify", "yield", "suspended"} -> "StreamingChunks"
      [] p \in {"done", "closed"} -> "Closed"
      [] OTHER -> "Blocking"

LifecycleStated ==
    { <<"Idle", "RequestSent">>,
      <<"RequestSent", "Erroring">>,
      <<"RequestSent", "StreamingChunks">>,
      <<"StreamingChunks", "Closed">> }

C12_LifecycleAsStated ==
    [][Streaming(mode) =>
         \/ Phase(pc') = Phase(pc)
         \/ <<Phase(pc), Phase(pc')>> \in LifecycleStated]_vars

\* C12: a streaming call moves Idle -> RequestSent -> Erroring or (status
\* classified as Success) StreamingChunks -> Closed, and also from
\* StreamingChunks to Erroring when the observer raises or a data line cannot be
\* decoded; a chunk is delivered and the observer is called only in
\* StreamingChunks, which is entered only with status 200 and no error;
\* nothing happens after Erroring or Closed
C12_Lifecycle ==
    [][Streaming(mode) =>
         /\ Phase(pc) \notin {"Erroring", "Closed"}
         /\ \/ Phase(pc') = Phase(pc)
            \/ <<Phase(pc), Phase(pc')>> \in LifecycleStated
            \/ /\ Phase(pc) = "StreamingChunks"
               /\ Phase(pc') = "Erroring"
               /\ err'.kind \in {"ObserverError", "UnicodeDecodeError"}
         /\ Phase(pc') = "StreamingChunks" => status' = 200 /\ err' = NoError
         /\ (delivered' # delivered \/ observed' # observed) =>
                /\ Phase(pc) = "StreamingChunks"
                /\ status = 200
                /\ response_text # None]_vars

\* a call that reached Erroring from StreamingChunks, after one chunk
C12_Witness ==
    /\ mode = "stream"
    /\ pc = "failed"
    /\ err.kind = "ObserverError"
    /\ Len(delivered) = 1
    /\ Len(observed) = 1


-----------------------------------------------------------------------------
(* C13: incremental delivery *)

\* C13: a chunk is handed to the consumer while the lines after its own are
\* still on the transport: at a delivery with lines still to come, the body has
\* not been read to its end
C13_DeliveredBeforeRest ==
    (Streaming(mode) /\ pc = "suspended" /\ lines # <<>>) =>
        rpos < Len(Wire(body))


-----------------------------------------------------------------------------
(* C14: one pass over the body *)

\* C14: a streaming call goes through its body once, front to back: the lines
\* handed to the loop are a prefix of the body in order, the transport is never
\* read past the end, and lines are not taken from a body that has already
\* been read in full
C14_SinglePass ==
    Streaming(mode) =>
        /\ rpos <= Len(Wire(body))
        /\ Len(fed) <= Len(body)
        /\ \A i \in 1..Len(fed) : fed[i] = body[i]
        /\ fed # <<>> => response_text = None


-----------------------------------------------------------------------------
(* C15: a failing observer *)

\* C15: once the observer has raised on the chunk of a line, the call has
\* failed with that very exception; the chunks delivered and the observations
\* made are those of the token lines before that line, so the chunk it raised
\* on is not delivered and no later line is read, notified or delivered
C15_ObserverFailureStops ==
    err.kind = "ObserverError" =>
        /\ pc = "failed"
        /\ err = Raise("ObserverError", "Exception", <<>>)
        /\ run_manager
        /\ fed # <<>>
        /\ LastFed \in ChunkLines
        /\ chunk = _handle_sse_line(decoded[Len(decoded)])
        /\ TextsDelivered = TextsOfLines(SubSeq(fed, 1, Len(fed) - 1))
        /\ Len(delivered) = Len(TextsDelivered)
        /\ observed = TextsDelivered
        /\ fed \o lines = body

\* the observer raised on the second of three token lines
C15_Witness ==
    /\ mode = "stream"
    /\ pc = "failed"
    /\ err.kind = "ObserverError"
    /\ body = <<TokA, TokB, TokA>>
    /\ delivered = <<[text |-> Str("a")]>>
    /\ lines = <<TokA>>


-----------------------------------------------------------------------------
(* C16: the blocking calls *)

\* the text t of bodies of the shape {"results":[{"generated_text": t}, ...]}
FirstGeneratedText ==
    (<<Hello>> :> Str("a")) @@ (<<HelloTwo>> :> Str("b"))

\* C16: a blocking call (_call, _acall) with status 200 and a body
\* {"results":[{"generated_text": t}, ...]} ends by returning exactly t, the
\* text of the first element; with any other status it ends by raising the
\* error of that status and returns no text
C16_BlockingResult ==
    ~Streaming(mode) =>
        /\ (status = 200 /\ body \in DOMAIN FirstGeneratedText /\ pc \notin {"idle", "posted", "classify", "json"}) =>
               /\ pc = "done"
               /\ result = FirstGeneratedText[body]
               /\ err = NoError
        /\ (status # 200 /\ pc \notin {"idle", "posted", "classify"}) =>
               /\ pc = "failed"
               /\ result = None
               /\ err = _handle_status(status, StatusText(mode))
               /\ err # NoError
        /\ result # None => status = 200 /\ pc = "done"

\* _acall returned the text of the first of two results
C16_Witness ==
    /\ mode = "acall"
    /\ pc = "done"
    /\ status = 200
    /\ body = <<HelloTwo>>
    /\ result = Str("b")


-----------------------------------------------------------------------------
(* _parse_stream on the two lines `data: p` and `data:p` of one payload p *)

MaxPayload == 2

PayloadLexemes == {" ", "\t", "[DONE]", "{", "}", BadUtf8}

TokenPayload == SubSeq(TokA, 3, Len(TokA))

Payloads ==
    SeqsUpTo(PayloadLexemes, MaxPayload)
      \cup {TokenPayload, <<" ">> \o TokenPayload, TokenPayload \o <<" ">>,
            SubSeq(Malformed, 3, Len(Malformed))}

WithSpace(p) == <<"data:", " ">> \o p
NoSpace(p) == <<"data:">> \o p

PrefixInputs == {<<WithSpace(p), NoSpace(p)>> : p \in Payloads}

InitPrefix ==
    /\ mode = "stream"
    /\ prompt = "p"
    /\ model_kwargs = None
    /\ kwargs = EmptyDict
    /\ run_manager \in BOOLEAN
    /\ sent = PostedBody(mode)
    /\ status = 200
    /\ body \in PrefixInputs
    /\ rpos = Len(Wire(body))
    /\ response_text = None
    /\ pc = "iter"
    /\ lines = iter_lines(Wire(body))
    /\ fed = <<>>
    /\ decoded = <<>>
    /\ line = None
    /\ chunk = None
    /\ observed = <<>>
    /\ delivered = <<>>
    /\ err = NoError
    /\ result = None
    /\ conn = "released"

NextPrefix ==
    \/ NextLine
    \/ HandleLine
    \/ Notify
    \/ NotifyFails
    \/ Yield
    \/ Resume
    \/ Abandon

SpecPrefix == InitPrefix /\ [][NextPrefix]_vars

-----------------------------------------------------------------------------
(* C17: the two prefixes *)

\* the payload of the pair of lines the call was given
PayloadGiven == SubSeq(body[2], 2, Len(body[2]))

\* the decoder gave the same for `data: p` and for `data:p`: both lines decoded
\* to the same text, or both skipped, or the first raised and the second
\* would raise as well
SameDecoded ==
    /\ Len(decoded) = 2 => decoded[1] = decoded[2]
    /\ (Len(decoded) = 1 /\ pc = "failed" /\ decoded[1] = UnicodeDecodeError) =>
           _parse_stream_helper(lines[1]) = UnicodeDecodeError

C17_SamePrefixAsStated == SameDecoded

\* C17: for every payload p that does not begin with a space, the decoder
\* gives the same for the raw lines `data: p` and `data:p`: the same decoded
\* text, nothing for both when p is [DONE], the same decode error for both
C17_SamePrefix ==
    (PayloadGiven = <<>> \/ PayloadGiven[1] # " ") => SameDecoded

\* both lines of a token payload were decoded to that payload and yielded
C17_Witness ==
    /\ PayloadGiven = TokenPayload
    /\ decoded = <<Text(TokenPayload), Text(TokenPayload)>>
    /\ pc = "done"
    /\ Len(delivered) = 2


-----------------------------------------------------------------------------
(* C18: lines after [DONE] *)

DoneLines == {Done, DoneTight}

AfterDone(j) == \E i \in 1..(j - 1) : fed[i] \in DoneLines

ChunksUpTo(j) == Cardinality({i \in 1..j : fed[i] \in ChunkLines})

\* C18: a [DONE] line yields nothing and does not end the loop: the loop ends
\* only when every line of the body has been read, and a token line read after
\* a [DONE] line is decoded and its chunk delivered like any other
C18_DoneDoesNotEnd ==
    /\ \A j \in 1..Len(fed) : fed[j] \in DoneLines => decoded[j] = None
    /\ (fed # <<>> /\ LastFed \in DoneLines) => pc \in {"iter", "done"}
    /\ pc = "done" => (lines = <<>> /\ fed = body)
    /\ \A j \in 1..Len(Settled) :
           (fed[j] \in TextTokenLines /\ AfterDone(j)) =>
               /\ IsText(decoded[j])
               /\ Len(delivered) >= ChunksUpTo(j)
               /\ delivered[ChunksUpTo(j)].text = Str(TextOf(fed[j]))

\* a token line before and one after [DONE], both delivered
C18_Witness ==
    /\ body = <<TokB, Done, TokA>>
    /\ pc = "done"
    /\ decoded[2] = None
    /\ delivered = <<[text |-> Str("b")], [text |-> Str("a")]>>


-----------------------------------------------------------------------------
(* C19: `error` anywhere in the body *)

\* the lines whose text holds the five characters error: as a key of its own,
\* and inside the token text "terror"
ErrorBearingLines == {ErrLine, TokTerror}

HasErrorBearingLine(b) == \E i \in 1..Len(b) : b[i] \in ErrorBearingLines

\* C19: a streaming call whose body holds the characters error anywhere, be it
\* inside the text of a valid token line at status 200, fails with the embedded
\* error once the text has been read, with no line read, no chunk delivered
\* and no observer call; so a chunk is delivered only from a body without it
C19_NoChunkWhenErrorAnywhere ==
    Streaming(mode) =>
        /\ (HasErrorBearingLine(body) /\ pc \notin {"idle", "posted", "check"}) =>
               /\ pc = "failed"
               /\ err.kind = "UpstreamEmbeddedError"
               /\ fed = <<>>
               /\ delivered = <<>>
               /\ observed = <<>>
        /\ delivered # <<>> => ~HasErrorBearingLine(body)

\* status 200, a valid token line, then a valid token line whose text is "terror"
C19_Witness ==
    /\ mode = "stream"
    /\ status = 200
    /\ body = <<TokA, TokTerror>>
    /\ pc = "failed"
    /\ err.kind = "UpstreamEmbeddedError"
    /\ delivered = <<>>


-----------------------------------------------------------------------------
(* C20: the two regimes *)

\* what a streaming call that ran to its end has delivered is the same in both
\* regimes: one chunk for each token line of the body, in order, each one
\* observed when there is an observer
SameAsBody ==
    /\ Len(delivered) = Cardinality({i \in 1..Len(body) : body[i] \in ChunkLines})
    /\ TextsDelivered = TextsOfLines(body)
    /\ run_manager => Len(observed) = Len(delivered)

\* C20: for one status and one body, _astream delivers what _stream delivers:
\* a call of either regime that ended without failure has delivered the
\* chunks of the token lines of its body
C20_AsyncSameAsSync ==
    (Streaming(mode) /\ pc = "done") => SameAsBody

====
